---- MODULE Spec2Model ----
(***************************************************************************)
(* Model of src/keybaseca/kbfs/kbfs.go (the KBFS facade: FileExists, Read, *)
(* Delete, Write, List over either the FUSE mount or `keybase fs`) and of  *)
(* kssh.ParseArgs.                                                         *)
(*                                                                         *)
(* The remote store is a map from file names to contents.  Every           *)
(* `keybase fs` subprocess is one atomic step against the store; it may    *)
(* fail for a reason unrelated to the target (res = "fault"), in which     *)
(* case it leaves the store alone.                                         *)
(***************************************************************************)
EXTENDS Integers, Sequences, FiniteSets, TLC

\* ---------------------------------------------------------------- bounds
MaxLen == 2
MaxBlank == 1
MaxArgs == 3

\* ------------------------------------------------------------ vocabulary
\* A missing file and a nil byte slice, kept apart from every content.
Absent == <<"absent">>
NilBytes == <<"nil">>
None == "none"
Nil == "nil"
NL == "\n"

Callers == {"main", "other"}
Bytes == {"x", "y"}
Paths == {<<"a">>, <<"b", "a">>}
WriteContents == {<<>>, <<"x">>, <<"y">>}
Probes == {"/keybase", "/keybase/team", "/keybase/private", "/keybase/public"}

VARIABLES store, mounted, call, contract, scan

vars == <<store, mounted, call, contract, scan>>

SeqsUpTo(S, n) == UNION {[1..k -> S] : k \in 0..n}

Contents == SeqsUpTo(Bytes, MaxLen)

\* ------------------------------------------------------- supportsFuse
\* Variant: only the root probed.
supportsFuseRootOnly(m) == "/keybase" \in m

supportsFuse(m) ==
    /\ "/keybase" \in m
    /\ "/keybase/team" \in m
    /\ "/keybase/private" \in m
    /\ "/keybase/public" \in m

\* --------------------------------------------------- strings helpers
Contains(s, substr) ==
    \E i \in 0..(Len(s) - Len(substr)) :
        \A j \in 1..Len(substr) : s[i + j] = substr[j]

RECURSIVE Split(_, _)
Split(s, sep) ==
    IF \A i \in 1..Len(s) : s[i] # sep
    THEN <<s>>
    ELSE LET k == CHOOSE i \in 1..Len(s) :
                      /\ s[i] = sep
                      /\ \A j \in 1..(i - 1) : s[j] # sep
         IN <<SubSeq(s, 1, k - 1)>> \o Split(SubSeq(s, k + 1, Len(s)), sep)

RECURSIVE DropEmpty(_)
DropEmpty(parts) ==
    IF parts = <<>> THEN <<>>
    ELSE IF Head(parts) # <<>>
         THEN <<Head(parts)>> \o DropEmpty(Tail(parts))
         ELSE DropEmpty(Tail(parts))

\* ------------------------------------------- the control binary's output
\* Combined output is a sequence of words; the text FileExists looks for is
\* "ERROR file does not exist".
NotExistNeedle == <<"ERROR", "file does not exist">>
NotExistOutput == <<">", "ERROR", "file does not exist", NL>>
FaultOutputs == {<<>>, <<">", "ERROR", "timeout", NL>>}

\* `keybase fs stat f`: exit status and combined output.
StatRuns(st, f) ==
    (IF st[f] # Absent
     THEN {[res |-> "ok", out |-> <<>>]}
     ELSE {[res |-> "absent", out |-> NotExistOutput]})
    \cup {[res |-> "fault", out |-> o] : o \in FaultOutputs}

\* os.Stat(f) / ioutil.ReadFile(f) on the mounted view of the same store.
LocalRuns(st, f) ==
    {IF st[f] # Absent THEN "ok" ELSE "absent", "fault"}

\* `keybase fs read f` and `keybase fs rm f`.
TargetRuns(st, f) ==
    {IF st[f] # Absent THEN "ok" ELSE "absent", "fault"}

\* ------------------------------------------------------------- the call
Idle ==
    [pc |-> "idle", op |-> None, filename |-> None, contents |-> <<>>,
     appendToFile |-> FALSE, fuse |-> None, log |-> <<>>, pre |-> NilBytes,
     val |-> NilBytes, err |-> Nil, emitted |-> <<>>, blank |-> FALSE]

\* The subprocesses among the calls made (the probes of supportsFuse are not
\* logged).
Spawned(log) ==
    Len(SelectSeq(log, LAMBDA e : e.cmd \notin {"os.Stat", "ioutil.ReadFile"}))

\* ------------------------------------------------------------ FileExists
\* The result of FileExists(filename): the value, the error and the calls made.
FileExistsFuse(run) ==
    [val |-> (run = "ok"),
     err |-> IF run = "fault" THEN "EACCES" ELSE Nil,
     log |-> <<[cmd |-> "os.Stat", res |-> run]>>]

\* Variant: every failure of `keybase fs stat` reported as an error.
FileExistsBridgeNoSniff(run) ==
    [val |-> (run.res = "ok"),
     err |-> IF run.res = "ok" THEN Nil ELSE "failed to stat",
     log |-> <<[cmd |-> "stat", res |-> run.res]>>]

FileExistsBridge(run) ==
    [val |-> (run.res = "ok"),
     err |-> IF run.res = "ok" THEN Nil
             ELSE IF Contains(run.out, NotExistNeedle) THEN Nil
             ELSE "failed to stat",
     log |-> <<[cmd |-> "stat", res |-> run.res]>>]

FileExistsResults(st, m, f) ==
    IF supportsFuse(m)
    THEN {FileExistsFuse(run) : run \in LocalRuns(st, f)}
    ELSE {FileExistsBridge(run) : run \in StatRuns(st, f)}

FileExists(c, f) ==
    /\ call[c].pc = "idle"
    /\ \E r \in FileExistsResults(store, mounted, f) :
          call' = [call EXCEPT ![c] =
                      [Idle EXCEPT !.pc = "done", !.op = "FileExists",
                                   !.filename = f, !.fuse = supportsFuse(mounted),
                                   !.log = r.log, !.val = r.val, !.err = r.err]]
    /\ UNCHANGED <<store, mounted, contract, scan>>

\* ------------------------------------------------------------------ Read
ReadFuse(st, f, run) ==
    [val |-> IF run = "ok" THEN st[f] ELSE NilBytes,
     err |-> IF run = "ok" THEN Nil
             ELSE IF run = "absent" THEN "ENOENT" ELSE "EACCES",
     log |-> <<[cmd |-> "ioutil.ReadFile", res |-> run]>>]

ReadBridge(st, f, run) ==
    [val |-> IF run = "ok" THEN st[f] ELSE NilBytes,
     err |-> IF run = "ok" THEN Nil ELSE "failed to read",
     log |-> <<[cmd |-> "read", res |-> run]>>]

\* Variant: Read without the fuse branch.
ReadResultsBridgeOnly(st, m, f) ==
    {ReadBridge(st, f, run) : run \in TargetRuns(st, f)}

ReadResults(st, m, f) ==
    IF supportsFuse(m)
    THEN {ReadFuse(st, f, run) : run \in LocalRuns(st, f)}
    ELSE {ReadBridge(st, f, run) : run \in TargetRuns(st, f)}

Read(c, f) ==
    /\ call[c].pc = "idle"
    /\ \E r \in ReadResults(store, mounted, f) :
          call' = [call EXCEPT ![c] =
                      [Idle EXCEPT !.pc = "done", !.op = "Read",
                                   !.filename = f, !.fuse = supportsFuse(mounted),
                                   !.log = r.log, !.val = r.val, !.err = r.err]]
    /\ UNCHANGED <<store, mounted, contract, scan>>

\* ---------------------------------------------------------------- Delete
\* Variant: the error of `keybase fs rm` dropped.
DeleteErrSwallowed(run) == Nil

\* Lines 72-75: the error Delete returns for the outcome of `keybase fs rm`.
DeleteErr(run) == IF run = "ok" THEN Nil ELSE "failed to delete the file"

Delete(c, f) ==
    /\ call[c].pc = "idle"
    /\ \E run \in TargetRuns(store, f) :
          /\ call' = [call EXCEPT ![c] =
                         [Idle EXCEPT !.pc = "done", !.op = "Delete",
                                      !.filename = f, !.pre = store[f],
                                      !.log = <<[cmd |-> "rm", res |-> run]>>,
                                      !.err = DeleteErr(run)]]
          /\ store' = IF run = "ok" THEN [store EXCEPT ![f] = Absent] ELSE store
          /\ contract' = [contract EXCEPT ![f] =
                             IF run = "ok" THEN [kind |-> "Delete", holds |-> Absent]
                             ELSE [kind |-> None, holds |-> NilBytes]]
    /\ UNCHANGED <<mounted, scan>>

\* ----------------------------------------------------------------- Write
\* Variant: --append passed whatever appendToFile is.
WriteCommandAlwaysAppend(appendToFile) == "write --append"

\* Lines 82-94: the subcommand Write runs.
WriteCommand(appendToFile) == IF appendToFile THEN "write --append" ELSE "write"

\* The subcommand against the store: each possible outcome and the store after.
WriteRuns(st, f, contents, cmd) ==
    IF cmd = "write"
    THEN {[res |-> "ok", store |-> [st EXCEPT ![f] = contents]],
          [res |-> "fault", store |-> st]}
    ELSE {IF st[f] = Absent THEN [res |-> "absent", store |-> st]
          ELSE IF Len(st[f]) + Len(contents) <= MaxLen
               THEN [res |-> "ok", store |-> [st EXCEPT ![f] = @ \o contents]]
               ELSE [res |-> "fault", store |-> st],
          [res |-> "fault", store |-> st]}

\* Lines 97-101.
WriteErr(res) == IF res = "ok" THEN Nil ELSE "failed to write to file"

\* Write(filename, contents, false): one `keybase fs write`.
WriteOverwrite(c, f, contents) ==
    /\ call[c].pc = "idle"
    /\ \E run \in WriteRuns(store, f, contents, WriteCommand(FALSE)) :
          /\ call' = [call EXCEPT ![c] =
                         [Idle EXCEPT !.pc = "done", !.op = "Write",
                                      !.filename = f, !.contents = contents,
                                      !.log = <<[cmd |-> WriteCommand(FALSE),
                                                 res |-> run.res]>>,
                                      !.err = WriteErr(run.res)]]
          /\ store' = run.store
          /\ contract' = [contract EXCEPT ![f] =
                             IF run.res = "ok"
                             THEN [kind |-> "Write", holds |-> contents]
                             ELSE [kind |-> None, holds |-> NilBytes]]
    /\ UNCHANGED <<mounted, scan>>

\* Write(filename, contents, true), lines 82-85: the existence check and the
\* decision whether to create the file first.
NeedsCreate(exists, err) == (~exists) \/ err # Nil

WriteAppendCheck(c, f, contents) ==
    /\ call[c].pc = "idle"
    /\ (IF store[f] = Absent THEN 0 ELSE Len(store[f])) + Len(contents) <= MaxLen
    /\ \E r \in FileExistsResults(store, mounted, f) :
          call' = [call EXCEPT ![c] =
                      [Idle EXCEPT !.pc = IF NeedsCreate(r.val, r.err)
                                          THEN "create" ELSE "append",
                                   !.op = "Write", !.filename = f,
                                   !.contents = contents, !.appendToFile = TRUE,
                                   !.fuse = supportsFuse(mounted),
                                   !.pre = store[f], !.log = r.log]]
    /\ UNCHANGED <<store, mounted, contract, scan>>

\* Variant: the error of the creation step not returned.
AfterCreateIgnoringErr(err) == "append"

\* Lines 87-89: where Write goes after the creation step returned err.
AfterCreate(err) == IF err # Nil THEN "done" ELSE "append"

\* Lines 86-89: ko.Write(filename, "", false) and the return of its error.
WriteAppendCreate(c) ==
    /\ call[c].pc = "create"
    /\ LET f == call[c].filename IN
       \E run \in WriteRuns(store, f, <<>>, WriteCommand(FALSE)) :
          /\ call' = [call EXCEPT ![c].pc = AfterCreate(WriteErr(run.res)),
                                  ![c].log = @ \o <<[cmd |-> WriteCommand(FALSE),
                                                     res |-> run.res]>>,
                                  ![c].err = WriteErr(run.res)]
          /\ store' = run.store
          /\ contract' = [contract EXCEPT ![f] = [kind |-> None, holds |-> NilBytes]]
    /\ UNCHANGED <<mounted, scan>>

\* Lines 91, 96-101: `keybase fs write --append`.
Concat(pre, contents) == IF pre = Absent THEN contents ELSE pre \o contents

WriteAppendRun(c) ==
    /\ call[c].pc = "append"
    /\ LET f == call[c].filename
           contents == call[c].contents IN
       \E run \in WriteRuns(store, f, contents, WriteCommand(TRUE)) :
          /\ call' = [call EXCEPT ![c].pc = "done",
                                  ![c].log = @ \o <<[cmd |-> WriteCommand(TRUE),
                                                     res |-> run.res]>>,
                                  ![c].err = WriteErr(run.res)]
          /\ store' = run.store
          /\ contract' = [contract EXCEPT ![f] =
                             IF run.res = "ok"
                             THEN [kind |-> "Append",
                                   holds |-> Concat(call[c].pre, contents)]
                             ELSE [kind |-> None, holds |-> NilBytes]]
    /\ UNCHANGED <<mounted, scan>>

\* ------------------------------------------------------------------ List
Repeat(x, k) == [i \in 1..k |-> x]

\* The orders in which `ls -1` may emit the names present in the store.
Present(st) == {f \in Paths : st[f] # Absent}

Emissions(st) ==
    {o \in [1..Cardinality(Present(st)) -> Present(st)] :
        \A i, j \in DOMAIN o : o[i] = o[j] => i = j}

\* The raw output: pads[0] blank lines, then each name followed by its newline
\* (the last one has none of its own) and pads[i] further newlines.
RECURSIVE RawFrom(_, _, _)
RawFrom(order, pads, i) ==
    IF i > Len(order) THEN <<>>
    ELSE order[i] \o Repeat(NL, (IF i < Len(order) THEN 1 ELSE 0) + pads[i])
         \o RawFrom(order, pads, i + 1)

RawOutput(order, pads) == Repeat(NL, pads[0]) \o RawFrom(order, pads, 1)

Range(seq) == {seq[i] : i \in DOMAIN seq}

\* Variant: the empty pieces kept.
ListNamesKeepBlank(output) == Split(output, NL)

\* Lines 111-117.
ListNames(output) == DropEmpty(Split(output, NL))

List(c) ==
    /\ call[c].pc = "idle"
    /\ \/ \E order \in Emissions(store) :
          \E pads \in [0..Len(order) -> 0..MaxBlank] :
             call' = [call EXCEPT ![c] =
                         [Idle EXCEPT !.pc = "done", !.op = "List",
                                      !.log = <<[cmd |-> "ls", res |-> "ok"]>>,
                                      !.emitted = order,
                                      !.blank = <<>> \in Range(Split(RawOutput(order, pads), NL)),
                                      !.val = ListNames(RawOutput(order, pads))]]
       \/ call' = [call EXCEPT ![c] =
                      [Idle EXCEPT !.pc = "done", !.op = "List",
                                   !.log = <<[cmd |-> "ls", res |-> "fault"]>>,
                                   !.err = "failed to list files"]]
    /\ UNCHANGED <<store, mounted, contract, scan>>

\* The call returns to its caller, which may issue the next one.
Return(c) ==
    /\ call[c].pc = "done"
    /\ call' = [call EXCEPT ![c] = Idle]
    /\ UNCHANGED <<store, mounted, contract, scan>>

\* The mount comes and goes during the process lifetime: a probe path appears
\* (below an existing root) or disappears (the root last).  A call consults the
\* mount once, when it starts, so the changes are taken between calls.
MountChange(p) ==
    /\ \A c \in Callers : call[c].pc = "idle"
    /\ \/ /\ p \notin mounted
          /\ p = "/keybase" \/ "/keybase" \in mounted
          /\ mounted' = mounted \cup {p}
       \/ /\ p \in mounted
          /\ p # "/keybase" \/ mounted = {"/keybase"}
          /\ mounted' = mounted \ {p}
    /\ UNCHANGED <<store, call, contract, scan>>

\* ------------------------------------------------------------- ParseArgs
Tokens == {"--team", "-q", "host"}

CLIArgument(name, hasArgument) == [Name |-> name, HasArgument |-> hasArgument]

DescriptorLists ==
    {<<>>,
     <<CLIArgument("--team", TRUE)>>,
     <<CLIArgument("-q", FALSE), CLIArgument("--team", TRUE)>>,
     <<CLIArgument("--team", FALSE), CLIArgument("--team", TRUE)>>}

NoError == [msg |-> Nil, name |-> ""]

ScanIdle ==
    [pc |-> "idle", args |-> <<>>, cliArguments |-> <<>>, i |-> 0,
     remainingArguments |-> <<>>, found |-> <<>>, err |-> NoError]

ScanStart(args, cliArguments) ==
    [ScanIdle EXCEPT !.pc = "loop", !.args = args, !.cliArguments = cliArguments]

\* The inner loop: the first descriptor whose Name is the token, or 0.
FirstMatch(cliArguments, arg) ==
    IF \E k \in 1..Len(cliArguments) : cliArguments[k].Name = arg
    THEN CHOOSE k \in 1..Len(cliArguments) :
            /\ cliArguments[k].Name = arg
            /\ \A j \in 1..(k - 1) : cliArguments[j].Name # arg
    ELSE 0

\* Variant: the value of a flag not skipped (no i++ on line 155).
ParseArgsStepRescan(s) ==
    LET arg == s.args[s.i + 1]
        k == FirstMatch(s.cliArguments, arg)
    IN IF k = 0
       THEN [s EXCEPT !.remainingArguments = @ \o <<arg>>, !.i = @ + 1]
       ELSE LET cliArg == s.cliArguments[k] IN
            IF cliArg.HasArgument /\ s.i + 1 = Len(s.args)
            THEN [s EXCEPT !.pc = "done", !.remainingArguments = <<>>,
                           !.found = <<>>,
                           !.err = [msg |-> "requires a value", name |-> cliArg.Name]]
            ELSE [s EXCEPT !.found = @ \o <<[Argument |-> cliArg,
                                             Value |-> IF cliArg.HasArgument
                                                       THEN s.args[s.i + 2] ELSE ""]>>,
                           !.i = @ + 1]

\* One iteration of the OUTER loop (i is 0-based as in the source).
ParseArgsStep(s) ==
    LET arg == s.args[s.i + 1]
        k == FirstMatch(s.cliArguments, arg)
    IN IF k = 0
       THEN [s EXCEPT !.remainingArguments = @ \o <<arg>>,
                      !.i = @ + 1]
       ELSE LET cliArg == s.cliArguments[k] IN
            IF cliArg.HasArgument
            THEN IF s.i + 1 = Len(s.args)
                 THEN [s EXCEPT !.pc = "done",
                                !.remainingArguments = <<>>,
                                !.found = <<>>,
                                !.err = [msg |-> "requires a value",
                                         name |-> cliArg.Name]]
                 ELSE [s EXCEPT !.found = @ \o <<[Argument |-> cliArg,
                                                  Value |-> s.args[s.i + 2]]>>,
                                !.i = @ + 2]
            ELSE [s EXCEPT !.found = @ \o <<[Argument |-> cliArg, Value |-> ""]>>,
                           !.i = @ + 1]

ParseArgsLoop ==
    /\ scan.pc = "loop"
    /\ scan.i < Len(scan.args)
    /\ scan' = ParseArgsStep(scan)
    /\ UNCHANGED <<store, mounted, call, contract>>

ParseArgsReturn ==
    /\ scan.pc = "loop"
    /\ scan.i >= Len(scan.args)
    /\ scan' = [scan EXCEPT !.pc = "done"]
    /\ UNCHANGED <<store, mounted, call, contract>>

\* -------------------------------------------------------- specifications
NoContract == [kind |-> None, holds |-> NilBytes]

InitStore ==
    /\ store \in [Paths -> {Absent, <<"x">>}]
    /\ mounted \in {{}, Probes}
    /\ call = [c \in Callers |-> Idle]
    /\ contract = [f \in Paths |-> NoContract]

Init ==
    /\ InitStore
    /\ scan = ScanIdle

\* One caller issuing facade calls one after the other.
Main == "main"

Next ==
    \/ \E f \in Paths : FileExists(Main, f)
    \/ \E f \in Paths : Read(Main, f)
    \/ \E f \in Paths : Delete(Main, f)
    \/ \E f \in Paths, contents \in WriteContents : WriteOverwrite(Main, f, contents)
    \/ \E f \in Paths, contents \in WriteContents : WriteAppendCheck(Main, f, contents)
    \/ WriteAppendCreate(Main)
    \/ WriteAppendRun(Main)
    \/ List(Main)
    \/ Return(Main)
    \/ \E p \in Probes : MountChange(p)

Spec == Init /\ [][Next]_vars

\* Several callers issuing only append Writes, interleaved at the subprocesses.
Shared == <<"a">>

NextAppend ==
    \/ \E c \in Callers, contents \in WriteContents :
          WriteAppendCheck(c, Shared, contents)
    \/ \E c \in Callers : WriteAppendCreate(c)
    \/ \E c \in Callers : WriteAppendRun(c)
    \/ \E c \in Callers : Return(c)

SpecAppend == Init /\ [][NextAppend]_vars

\* ParseArgs on every bounded token sequence and descriptor list.
InitArgs ==
    /\ store = [f \in Paths |-> Absent]
    /\ mounted = {}
    /\ call = [c \in Callers |-> Idle]
    /\ contract = [f \in Paths |-> NoContract]
    /\ \E args \in SeqsUpTo(Tokens, MaxArgs), cliArguments \in DescriptorLists :
          scan = ScanStart(args, cliArguments)

NextArgs ==
    \/ ParseArgsLoop
    \/ ParseArgsReturn

SpecArgs == InitArgs /\ [][NextArgs]_vars

\* ================================================================ claims
\* The call of the sequential caller, and what it did.
m == call[Main]
Done(op) == m.pc = "done" /\ m.op = op
LocalCalls(log) == Len(log) - Spawned(log)
IsMounted == Probes \subseteq mounted
Ran(log, cmd) == \E i \in DOMAIN log : log[i].cmd = cmd
Failed(log, cmd) == \E i \in DOMAIN log : log[i].cmd = cmd /\ log[i].res # "ok"

\* C1: once Write(P, C, false) has returned nil and nothing else has written or
\* deleted P, Read(P) returns exactly C on either backend (an error only when
\* the Read's own backend call fails); a second overwrite replaces the first.
C1_ReadReturnsWritten ==
    (Done("Read") /\ contract[m.filename].kind = "Write") =>
        /\ m.err = Nil => m.val = contract[m.filename].holds
        /\ m.err # Nil => m.log[1].res = "fault"

C1_Witness ==
    /\ Done("Read")
    /\ contract[m.filename].kind = "Write"
    /\ m.err = Nil
    /\ m.val = <<"y">>
    /\ m.fuse = TRUE

\* C2: Write(P, C, true) that returns nil followed by Read(P) returns what P
\* held before the call followed by C (just C when P did not exist).
C2_ReadReturnsAppended ==
    (Done("Read") /\ contract[m.filename].kind = "Append" /\ m.err = Nil) =>
        m.val = contract[m.filename].holds

\* C3: for P not in the store FileExists(P) returns false, and a nil error
\* whenever the backend reports the absence (os.IsNotExist on the mount, the
\* "ERROR file does not exist" text from `keybase fs stat`).
C3_AbsentIsFalseNotError ==
    (Done("FileExists") /\ store[m.filename] = Absent) =>
        /\ m.val = FALSE
        /\ m.log[1].res = "absent" => m.err = Nil

C3_Witness ==
    /\ Done("FileExists")
    /\ store[m.filename] = Absent
    /\ m.fuse = FALSE
    /\ m.log[1].res = "absent"
    /\ m.val = FALSE
    /\ m.err = Nil

\* C4: after Delete(P) returned nil and no write to P followed, FileExists(P)
\* returns false (with an error only when its own backend call fails); Delete
\* of a path that is not in the store returns its "failed to delete" error.
C4_DeleteThenExists ==
    /\ (Done("FileExists") /\ contract[m.filename].kind = "Delete") =>
          /\ m.val = FALSE
          /\ m.err # Nil => m.log[1].res = "fault"
    /\ (Done("Delete") /\ m.pre = Absent) => m.err = "failed to delete the file"

C4_Witness ==
    /\ Done("FileExists")
    /\ contract[m.filename].kind = "Delete"
    /\ m.val = FALSE
    /\ m.err = Nil

\* C5: when the creation step of an append Write fails, Write returns that
\* error and `write --append` is never run: the store is as it was.
C5_CreateFailureStopsAppend ==
    (m.op = "Write" /\ m.appendToFile /\ Failed(m.log, "write")) =>
        /\ m.pc = "done"
        /\ m.err = "failed to write to file"
        /\ ~Ran(m.log, "write --append")
        /\ store[m.filename] = m.pre

C5_Witness ==
    /\ Done("Write")
    /\ m.appendToFile
    /\ m.pre = Absent
    /\ Failed(m.log, "write")
    /\ m.err = "failed to write to file"

\* C6, as stated: every operation makes one direct local call or spawns exactly
\* one subprocess, except an append Write to a nonexistent file: exactly two.
C6_OneSubprocess ==
    m.pc = "done" =>
        IF m.op = "Write" /\ m.appendToFile /\ m.pre = Absent
        THEN Spawned(m.log) = 2
        ELSE \/ Spawned(m.log) = 1
             \/ Spawned(m.log) = 0 /\ LocalCalls(m.log) = 1

\* C6, amended (the four probes of supportsFuse aside): FileExists and Read
\* make one direct call and spawn nothing when mounted, else spawn one;
\* Delete, List and an overwriting Write spawn one; an
\* append Write spawns a stat when not mounted, a write when the target is
\* missing or the check failed, and the write --append unless that write failed.
Count(b) == IF b THEN 1 ELSE 0

C6_SubprocessCount ==
    m.pc = "done" =>
        IF m.op \in {"FileExists", "Read"}
        THEN IF IsMounted
             THEN Spawned(m.log) = 0 /\ LocalCalls(m.log) = 1
             ELSE Spawned(m.log) = 1 /\ LocalCalls(m.log) = 0
        ELSE IF m.op = "Write" /\ m.appendToFile
        THEN /\ LocalCalls(m.log) = Count(IsMounted)
             /\ Spawned(m.log) =
                   Count(~IsMounted)
                   + Count(m.pre = Absent \/ m.log[1].res = "fault")
                   + Count(~Failed(m.log, "write"))
             /\ Spawned(m.log) \in 1..3
        ELSE Spawned(m.log) = 1 /\ LocalCalls(m.log) = 0

C6_Witness ==
    /\ Done("Write")
    /\ m.appendToFile
    /\ m.pre = Absent
    /\ m.err = Nil
    /\ Spawned(m.log) = 3

\* C7: List returns, without error, exactly the names the backend emitted, in
\* that order and with no empty entry, whatever blank lines the raw output has;
\* output with no non-empty line gives the empty result and a nil error.
C7_ListReturnsNames ==
    (Done("List") /\ m.log[1].res = "ok") =>
        /\ m.err = Nil
        /\ m.val = m.emitted
        /\ \A i \in DOMAIN m.val : m.val[i] # <<>>
        /\ Range(m.val) = Present(store)
        /\ Len(m.val) = Cardinality(Present(store))

C7_Witness ==
    /\ Done("List")
    /\ m.blank
    /\ Len(m.val) = 2
    /\ m.err = Nil

\* C9: FileExists and Read use the direct call and spawn nothing exactly when
\* all four probe paths are there at the time of the call; Write, Delete and
\* List run the control binary whatever the mount state.
C9_BackendSelection ==
    m.pc = "done" =>
        /\ m.op \in {"FileExists", "Read"} =>
              /\ Spawned(m.log) + LocalCalls(m.log) = 1
              /\ Spawned(m.log) = 0 <=> IsMounted
        /\ m.op \in {"Write", "Delete", "List"} =>
              /\ Spawned(m.log) >= 1
              /\ m.log[Len(m.log)].cmd \in {"write", "write --append", "rm", "ls"}

C9_Witness ==
    /\ Done("Read")
    /\ Spawned(m.log) = 0
    /\ IsMounted
    /\ contract[m.filename].kind = "Write"

\* C10: in executions of append Writes only, sequential or interleaved, what a
\* path holds is never destroyed: its content stays a prefix of what it holds
\* after every step, so the truncating write never runs against content.
IsPrefix(s, t) == Len(s) <= Len(t) /\ SubSeq(t, 1, Len(s)) = s

C10_AppendsNeverDestroy ==
    [][\A f \in Paths :
          store[f] # Absent => store'[f] # Absent /\ IsPrefix(store[f], store'[f])]_vars

\* C8, as stated: a recognized value-requiring flag in final position fails the
\* scan with an error naming it, and every token that matches no descriptor is
\* in the remaining tokens, in order.
Recognized(cliArguments, arg) ==
    \E k \in DOMAIN cliArguments : cliArguments[k].Name = arg

TakesValue(cliArguments, arg) ==
    \E k \in DOMAIN cliArguments :
        /\ cliArguments[k].Name = arg
        /\ cliArguments[k].HasArgument
        /\ \A j \in 1..(k - 1) : cliArguments[j].Name # arg

MissingValue(name) == [msg |-> "requires a value", name |-> name]

C8_ScanAsStated ==
    scan.pc = "done" =>
        LET n == Len(scan.args) IN
        /\ (n > 0 /\ TakesValue(scan.cliArguments, scan.args[n])) =>
              scan.err = MissingValue(scan.args[n])
        /\ scan.err = NoError =>
              scan.remainingArguments =
                 SelectSeq(scan.args, LAMBDA t : ~Recognized(scan.cliArguments, t))

\* C8, amended: the token after a value-requiring flag (one whose first matching
\* descriptor has HasArgument) is consumed as its value, whatever it is.  A value-requiring flag in final position that is not itself
\* so consumed fails the scan with an error naming it (and nothing else fails
\* it); every token that matches no descriptor and is not consumed as a value
\* is in the remaining tokens, in order; each flag position is matched once.
RECURSIVE IsValuePos(_, _, _)
IsValuePos(args, cliArguments, p) ==
    /\ p > 1
    /\ ~IsValuePos(args, cliArguments, p - 1)
    /\ TakesValue(cliArguments, args[p - 1])

IsFlagPos(args, cliArguments, p) ==
    Recognized(cliArguments, args[p]) /\ ~IsValuePos(args, cliArguments, p)

RECURSIVE RestFrom(_, _, _)
RestFrom(args, cliArguments, p) ==
    IF p > Len(args) THEN <<>>
    ELSE (IF ~Recognized(cliArguments, args[p]) /\ ~IsValuePos(args, cliArguments, p)
          THEN <<args[p]>> ELSE <<>>)
         \o RestFrom(args, cliArguments, p + 1)

C8_ScanAmended ==
    scan.pc = "done" =>
        LET n == Len(scan.args)
            cli == scan.cliArguments
            lastNeedsValue ==
               n > 0 /\ TakesValue(cli, scan.args[n]) /\ ~IsValuePos(scan.args, cli, n)
        IN /\ lastNeedsValue <=> scan.err # NoError
           /\ lastNeedsValue => scan.err = MissingValue(scan.args[n])
           /\ scan.err = NoError =>
                 /\ scan.remainingArguments = RestFrom(scan.args, cli, 1)
                 /\ Len(scan.found) =
                       Cardinality({p \in 1..n : IsFlagPos(scan.args, cli, p)})

C8_Witness ==
    /\ scan.pc = "done"
    /\ scan.err = NoError
    /\ scan.args = <<"--team", "host", "host">>
    /\ scan.remainingArguments = <<"host">>
    /\ Len(scan.found) = 1

====
